---- MODULE Spec2Model ----
(***************************************************************************)
(* A model of desktop_organizer.py: the DesktopOrganizer tools             *)
(* (show_status, analyze_files, organize), the console flow main(), and    *)
(* the part of the filesystem they act on.                                 *)
(*                                                                         *)
(* File names and category names are strings, taken apart character by     *)
(* character the way os.path does.  The filesystem is a map from the       *)
(* resolved paths of the regular files to a content id, and the set of the *)
(* resolved paths of the directories.                                      *)
(*                                                                         *)
(* The program is single-threaded and each tool call is one step.  The     *)
(* only other actor is whoever else deletes files of the desktop: between  *)
(* calls that is the step ExternalDelete, and during a run of organize it  *)
(* is a choice made at the points of the loop where it can be observed.    *)
(***************************************************************************)
EXTENDS Naturals, Sequences, FiniteSets, TLC

VARIABLES
    files,          \* filesystem: resolved path of a regular file -> content id
    dirs,           \* filesystem: resolved paths of the directories
    mode,           \* "boot", "host" (Truffle app launched), "console" (main())
    cpc,            \* main(): position in the console flow
    out,            \* main(): what has been printed, in order
    answers,        \* main(): the answers read from standard input, in order
    pc,             \* "idle", or "returned": a tool call has returned ret
    calls,          \* number of tool calls the host has made
    ret,            \* what the tool call returned
    listed,         \* organize(): the names in files, the listing of line 142
    categories,     \* organize(): the plan analyze_files returned
    moved_files,    \* organize(): moved_files
    skipped_files,  \* organize(): skipped_files
    before,         \* history: the filesystem when the call began
    effects,        \* history: directories created and moves made by the call
    collided,       \* history: the call took the branch of line 178
    gone,           \* history: names deleted externally during the call
    afterClean,     \* history: the last run before the call moved everything
    deletes,        \* number of external deletions so far
    deletedContents \* history: content ids deleted externally

vars == <<files, dirs, mode, cpc, out, answers, pc, calls, ret, listed,
          categories, moved_files, skipped_files, before, effects, collided,
          gone, afterClean, deletes, deletedContents>>

----------------------------------------------------------------------------
(* Bounds of the model.                                                    *)

MaxCalls == 2        \* tool calls the Truffle host makes
MaxPlanFiles == 1    \* file names in one reply of the LLM
MaxClock == 1        \* the wall clock reads second 0 to second MaxClock
MaxDeletes == 1      \* files an external actor deletes
MaxAnalyze == 3      \* length of the list given to analyze_files directly

----------------------------------------------------------------------------
(* Strings.                                                                *)

Char(s, i) == SubSeq(s, i, i)

RECURSIVE RFind(_, _, _)
\* str.rfind restricted to s[1..i]: the last index of character c, 0 if none
RFind(s, c, i) ==
    IF i = 0 THEN 0
    ELSE IF Char(s, i) = c THEN i ELSE RFind(s, c, i - 1)

UpperChars == "ABCDEFGHIJKLMNOPQRSTUVWXYZ"
LowerChars == "abcdefghijklmnopqrstuvwxyz"

LowerChar(c) ==
    LET i == RFind(UpperChars, c, Len(UpperChars))
    IN  IF i = 0 THEN c ELSE Char(LowerChars, i)

RECURSIVE Lower(_)
\* str.lower
Lower(s) == IF s = "" THEN "" ELSE LowerChar(Char(s, 1)) \o Lower(Tail(s))

StartsWith(s, p) == Len(s) >= Len(p) /\ SubSeq(s, 1, Len(p)) = p

----------------------------------------------------------------------------
(* Paths.  A path is the string the code builds, kept as the sequence of   *)
(* its components: "/home/u/Desktop/../Out" is                             *)
(* <<"home", "u", "Desktop", "..", "Out">>.  A file or a directory of the  *)
(* filesystem is named by its node: the components from the root down,     *)
(* with no ".", ".." or empty component.                                   *)

RECURSIVE SplitPath(_, _, _)
\* s.split("/"): s is what is left to read, cur the component being read,
\* acc the components read
SplitPath(s, cur, acc) ==
    IF s = "" THEN Append(acc, cur)
    ELSE IF Char(s, 1) = "/"
         THEN SplitPath(Tail(s), "", Append(acc, cur))
         ELSE SplitPath(Tail(s), cur \o Char(s, 1), acc)

Parent(p) == SubSeq(p, 1, Len(p) - 1)

\* os.path.basename
Basename(p) == p[Len(p)]

\* os.path.join(a, b) of an absolute path a and a string b: b itself when
\* it starts with "/", else b after a and one "/"
Join(a, b) ==
    IF StartsWith(b, "/") THEN Tail(SplitPath(b, "", <<>>))
    ELSE (IF a # <<>> /\ Basename(a) = "" THEN Parent(a) ELSE a)
         \o SplitPath(b, "", <<>>)

RECURSIVE Walk(_, _)
\* os.path.abspath: the path with "." and empty components dropped and
\* ".." taken with the component before it
Walk(comps, acc) ==
    IF comps = <<>> THEN acc
    ELSE IF Head(comps) \in {".", ""} THEN Walk(Tail(comps), acc)
    ELSE IF Head(comps) = ".."
         THEN Walk(Tail(comps),
                   IF acc = <<>> THEN acc ELSE SubSeq(acc, 1, Len(acc) - 1))
    ELSE Walk(Tail(comps), Append(acc, Head(comps)))

\* os.path.splitext of a name: <<root, ext>>; leading dots are not an
\* extension
SplitExt(p) ==
    LET sep == RFind(p, "/", Len(p))
        dot == RFind(p, ".", Len(p))
    IN  IF dot > sep /\ \E k \in (sep + 1)..(dot - 1) : Char(p, k) # "."
        THEN <<SubSeq(p, 1, dot - 1), SubSeq(p, dot, Len(p))>>
        ELSE <<p, "">>

RECURSIVE PathString(_)
\* the string of a path, as the messages of the errors show it
PathString(p) ==
    IF p = <<>> THEN "" ELSE "/" \o Head(p) \o PathString(Tail(p))

\* os.strerror
StrError(errno) ==
    CASE errno = "2" -> "No such file or directory"
      [] errno = "17" -> "File exists"
      [] OTHER -> "Not a directory"

\* str(e) of an OSError with a file name
OSError(errno, p) ==
    "[Errno " \o errno \o "] " \o StrError(errno) \o ": '" \o PathString(p) \o "'"

\* Path.home()
Home == <<"home", "u">>

\* self.desktop_path, line 26
DesktopPath == Join(Home, "Desktop")

----------------------------------------------------------------------------
(* The filesystem calls, on a filesystem given as (f, d): f the regular    *)
(* files (node -> content), d the directories (nodes).                     *)

RECURSIVE Follow(_, _, _, _)
\* the kernel's walk along the components comps from node acc: a component
\* is looked up only in a directory
Follow(f, d, comps, acc) ==
    IF comps = <<>>
    THEN [at |-> acc,
          err |-> IF acc \in d \/ acc \in DOMAIN f THEN "" ELSE "2"]
    ELSE IF acc \notin d
    THEN [at |-> acc, err |-> IF acc \in DOMAIN f THEN "20" ELSE "2"]
    ELSE IF Head(comps) \in {".", ""} THEN Follow(f, d, Tail(comps), acc)
    ELSE IF Head(comps) = ".."
    THEN Follow(f, d, Tail(comps),
                IF acc = <<>> THEN acc ELSE SubSeq(acc, 1, Len(acc) - 1))
    ELSE Follow(f, d, Tail(comps), Append(acc, Head(comps)))

\* the node path p names (when only its last component is missing, the node
\* it would name), and the errno of looking it up, "" when it is there
Lookup(f, d, p) == Follow(f, d, p, <<>>)

\* os.path.exists
Exists(f, d, p) == Lookup(f, d, p).err = ""

\* os.path.isfile
IsFile(f, d, p) ==
    LET l == Lookup(f, d, p) IN l.err = "" /\ l.at \in DOMAIN f

\* os.path.isdir
IsDir(f, d, p) ==
    LET l == Lookup(f, d, p) IN l.err = "" /\ l.at \in d

\* os.listdir(p): the names of the entries of directory p; it raises when p
\* is missing and when p, or a component above it, is a regular file
ListDir(f, d, p) ==
    LET l == Lookup(f, d, p)
    IN  IF l.err # ""
        THEN [ok |-> FALSE, names |-> {}, error |-> OSError(l.err, p)]
        ELSE IF l.at \in DOMAIN f
        THEN [ok |-> FALSE, names |-> {}, error |-> OSError("20", p)]
        ELSE [ok |-> TRUE,
              names |-> {Basename(q) :
                           q \in {r \in (DOMAIN f \cup d) :
                                    r # <<>> /\ Parent(r) = l.at}},
              error |-> ""]

\* os.mkdir(p): errno "" and the directories with the new one, or the errno
\* it raises with
Mkdir(f, d, p) ==
    LET name == IF Basename(p) = "" THEN Parent(p) ELSE p
        par == Lookup(f, d, Parent(name))
    IN  IF Exists(f, d, name) THEN [errno |-> "17", dirs |-> d]
        ELSE IF par.err # "" THEN [errno |-> par.err, dirs |-> d]
        ELSE IF par.at \notin d THEN [errno |-> "20", dirs |-> d]
        ELSE [errno |-> "", dirs |-> d \cup {Append(par.at, Basename(name))}]

RECURSIVE MakeDirsFrom(_, _, _)
\* os.makedirs(p, exist_ok=True) as the library does it: when the level
\* above p is missing, the levels above first (a FileExistsError of theirs
\* is passed over, and a p that ends in "." is then done); then
\* os.mkdir(p), whose error is raised unless p is a directory.  at is the
\* path the error names.
MakeDirsFrom(f, d, p) ==
    LET name == IF Basename(p) = "" THEN Parent(p) ELSE p
        head == Parent(name)
        tail == Basename(name)
        recursed == head # <<>> /\ tail # "" /\ ~Exists(f, d, head)
        above == IF recursed THEN MakeDirsFrom(f, d, head)
                 ELSE [errno |-> "", dirs |-> d, at |-> p]
        mk == Mkdir(f, above.dirs, p)
    IN  IF above.errno \notin {"", "17"} THEN above
        ELSE IF recursed /\ tail = "."
        THEN [errno |-> "", dirs |-> above.dirs, at |-> p]
        ELSE IF mk.errno = "" \/ IsDir(f, above.dirs, p)
        THEN [errno |-> "", dirs |-> mk.dirs, at |-> p]
        ELSE [errno |-> mk.errno, dirs |-> above.dirs, at |-> p]

\* os.makedirs(p, exist_ok=True)
MakeDirs(f, d, p) ==
    LET r == MakeDirsFrom(f, d, p)
    IN  IF r.errno = ""
        THEN [ok |-> TRUE, dirs |-> r.dirs, made |-> r.dirs \ d, error |-> ""]
        ELSE [ok |-> FALSE, dirs |-> r.dirs, made |-> r.dirs \ d,
              error |-> OSError(r.errno, r.at)]

\* f without the file at node p
Unlink(f, p) == [q \in (DOMAIN f \ {p}) |-> f[q]]

IsUnder(q, p) == Len(q) >= Len(p) /\ SubSeq(q, 1, Len(p)) = p

\* node q of the tree at node from, in the tree put at node to
Moved(q, from, to) == to \o SubSeq(q, Len(from) + 1, Len(q))

\* a rename that leaves the file at its old node too
RenameKeepsSource(f, from, to) == (to :> f[from]) @@ f

\* os.rename of the regular file at node from to the node to: the file is
\* at to, in place of what was there, and no longer at from
Rename(f, from, to) == (to :> f[from]) @@ Unlink(f, from)

\* the files and the directories after the tree at node from is put at node
\* to
MoveTree(f, d, from, to) ==
    [files |->
        [q \in {r \in DOMAIN f : ~IsUnder(r, from)}
               \cup {Moved(r, from, to) : r \in {x \in DOMAIN f : IsUnder(x, from)}}
           |-> IF \E r \in DOMAIN f : IsUnder(r, from) /\ Moved(r, from, to) = q
               THEN f[CHOOSE r \in DOMAIN f :
                        IsUnder(r, from) /\ Moved(r, from, to) = q]
               ELSE f[q]],
     dirs |-> {r \in d : ~IsUnder(r, from)}
              \cup {Moved(r, from, to) : r \in {x \in d : IsUnder(x, from)}}]

\* what shutil.move gives when it raises
Raises(f, d, at, error) ==
    [ok |-> FALSE, files |-> f, dirs |-> d, to |-> at, replaced |-> 0,
     error |-> error]

\* shutil.move(src, dst): into dst when dst is a directory (refused when
\* the name is taken there); os.rename when it can; else, of a directory,
\* refused when dst is in src, or the tree is copied (copytree makes the
\* directory dst with os.makedirs, which raises when dst is there or a
\* level above it is a regular file) and removed; else, of a file, the
\* error of the copy
ShutilMove(f, d, src, dst) ==
    LET s == Lookup(f, d, src)
        into == IsDir(f, d, dst)
        real == IF into
                THEN Join(dst, Basename(IF Basename(src) = ""
                                        THEN Parent(src) ELSE src))
                ELSE dst
        t == Lookup(f, d, real)
        par == Lookup(f, d, Parent(real))
        parent_ok == par.err = "" /\ par.at \in d
        md == MakeDirs(f, d, real)
        to == IF parent_ok /\ Basename(real) \notin {"", ".", ".."}
              THEN Append(par.at, Basename(real)) ELSE t.at
    IN  IF into /\ s.err = "" /\ s.at = Lookup(f, d, dst).at
        THEN [ok |-> TRUE, files |-> f, dirs |-> d, to |-> s.at,
              replaced |-> 0, error |-> ""]
        ELSE IF into /\ t.err = ""
        THEN Raises(f, d, t.at, "Destination path '" \o PathString(real)
                                  \o "' already exists")
        ELSE IF s.err = "" /\ s.at \in DOMAIN f
        THEN IF ~parent_ok
             THEN Raises(f, d, t.at,
                         OSError(IF par.err # "" THEN par.err ELSE "20", real))
             ELSE [ok |-> TRUE, files |-> Rename(f, s.at, to), dirs |-> d,
                   to |-> to,
                   replaced |-> IF to \in DOMAIN f /\ to # s.at
                                THEN f[to] ELSE 0,
                   error |-> ""]
        ELSE IF s.err = ""
        THEN IF IsUnder(Walk(dst, <<>>), Walk(src, <<>>))
             THEN Raises(f, d, s.at,
                         "Cannot move a directory '" \o PathString(src)
                         \o "' into itself '" \o PathString(dst) \o "'.")
             ELSE IF t.err = "" THEN Raises(f, d, t.at, OSError("17", real))
             ELSE IF ~md.ok THEN Raises(f, d, t.at, md.error)
             ELSE [ok |-> TRUE,
                   files |-> MoveTree(f, md.dirs, s.at,
                                      Lookup(f, md.dirs, real).at).files,
                   dirs |-> MoveTree(f, md.dirs, s.at,
                                     Lookup(f, md.dirs, real).at).dirs,
                   to |-> Lookup(f, md.dirs, real).at,
                   replaced |-> 0, error |-> ""]
        ELSE Raises(f, d, s.at, OSError(s.err, src))

----------------
(* The clock.                                                              *)

Digit(n) == Char("0123456789", n + 1)

TwoDigits(n) == Digit(n \div 10) \o Digit(n % 10)

\* the date and hour of second 0 of the clock, as strftime prints them
ClockEpoch == "20240101_12"

\* what datetime.now() may read: local wall-clock time, which is not
\* monotonic, so a later call may read the second an earlier call read
Seconds == 0..MaxClock

\* datetime.now().strftime("%Y%m%d_%H%M%S") at second t
Timestamp(t) ==
    ClockEpoch \o TwoDigits((t \div 60) % 60) \o TwoDigits(t % 60)

----------------------------------------------------------------------------
(* Ordered dictionaries: a sequence of [category, files] with distinct     *)
(* categories, in insertion order.                                         *)

Keys(dict) == {dict[i].category : i \in 1..Len(dict)}

\* dict.setdefault(k, []).append(v)
SetDefaultAppend(dict, k, v) ==
    IF k \in Keys(dict)
    THEN [i \in 1..Len(dict) |->
            IF dict[i].category = k
            THEN [category |-> k, files |-> Append(dict[i].files, v)]
            ELSE dict[i]]
    ELSE Append(dict, [category |-> k, files |-> <<v>>])

RECURSIVE Entries(_)
\* the (category, file) pairs in the order the loops of lines 165-166 visit
\* them
Entries(dict) ==
    IF dict = <<>> THEN <<>>
    ELSE [i \in 1..Len(Head(dict).files) |->
            [category |-> Head(dict).category, file |-> Head(dict).files[i]]]
         \o Entries(Tail(dict))

Range(s) == {s[i] : i \in 1..Len(s)}

----------------------------------------------------------------------------
(* analyze_files.                                                          *)

\* the table of lines 116-123
ExtensionTable(ext) ==
    CASE ext \in {".jpg", ".jpeg", ".png", ".gif"} -> "Images"
      [] ext \in {".pdf", ".doc", ".docx", ".txt"} -> "Documents"
      [] ext \in {".mp4", ".mov", ".avi"} -> "Videos"
      [] ext \in {".mp3", ".wav", ".m4a"} -> "Audio"
      [] ext \in {".zip", ".rar", ".7z"} -> "Archives"
      [] ext \in {".py", ".js", ".html", ".css"} -> "Code"
      [] OTHER -> "Other"

\* lines 113-123: the category of one file in the fallback
FallbackCategory(file) ==
    LET e == Lower(SplitExt(file)[2])
        ext == IF e = "" THEN "No Extension" ELSE e
    IN  ExtensionTable(ext)

RECURSIVE FallbackFrom(_, _)
\* the loop of lines 112-125
FallbackFrom(fs, extensions) ==
    IF fs = <<>> THEN extensions
    ELSE FallbackFrom(Tail(fs),
                      SetDefaultAppend(extensions, FallbackCategory(Head(fs)),
                                       Head(fs)))

\* lines 110-126
Fallback(fs) == FallbackFrom(fs, <<>>)

\* analyze_files(files): reply is what the chat completion gave: a parsed
\* JSON object (ok) or an exception in the call or in json.loads (not ok)
AnalyzeFiles(fs, reply) ==
    IF fs = <<>> THEN <<>>
    ELSE IF reply.ok THEN reply.plan
    ELSE Fallback(fs)

----------------------------------------------------------------------------
(* What the tools return.                                                  *)

RECURSIVE CategoryLines(_)
\* lines 155-158: a header line for each category, then a line for each of
\* its files
CategoryLines(plan) ==
    IF plan = <<>> THEN <<>>
    ELSE <<"\n" \o Head(plan).category \o ":">>
         \o [i \in 1..Len(Head(plan).files) |-> "  - " \o Head(plan).files[i]]
         \o CategoryLines(Tail(plan))

\* lines 154-159: the lines of the preview ("\n".join leaves them as they are)
PreviewLines(plan) == <<"Preview of organization plan:">> \o CategoryLines(plan)

NoRet == [kind |-> "none"]

\* line 147
NoFiles == [kind |-> "nofiles", text |-> "No files to organize on the desktop."]

\* the characters of the names and of the messages, in the order of their
\* code points
CodePoints ==
    " '()-./0123456789:ABCDEFGHIJKLMNOPQRSTUVWXYZ[]_abcdefghijklmnopqrstuvwxyz"

Ord(c) == RFind(CodePoints, c, Len(CodePoints))

RECURSIVE StrLess(_, _)
\* s < t, as Python compares two str
StrLess(s, t) ==
    IF t = "" THEN FALSE
    ELSE IF s = "" THEN TRUE
    ELSE IF Char(s, 1) = Char(t, 1) THEN StrLess(Tail(s), Tail(t))
    ELSE Ord(Char(s, 1)) < Ord(Char(t, 1))

RECURSIVE Insert(_, _)
\* the sorted sequence q with x put in its place
Insert(x, q) ==
    IF q = <<>> THEN <<x>>
    ELSE IF StrLess(x, Head(q)) THEN <<x>> \o q
    ELSE <<Head(q)>> \o Insert(x, Tail(q))

RECURSIVE Sorted(_)
\* sorted(q) of a list of str
Sorted(q) == IF q = <<>> THEN <<>> ELSE Insert(Head(q), Sorted(Tail(q)))

\* lines 191-202: the summary; under each category of moved_files its files
\* sorted, then skipped_files sorted
Summary(moved, skipped) ==
    [kind |-> "summary",
     moved |-> [i \in 1..Len(moved) |->
                  [category |-> moved[i].category,
                   files |-> Sorted(moved[i].files)]],
     skipped |-> Sorted(skipped)]

\* line 204: truffle.ReportError(e)
ReportError(e) == [kind |-> "error", error |-> e]

\* lines 38-70: show_status
ShowStatus(f, d, include_hidden) ==
    LET ls == ListDir(f, d, DesktopPath)
        items == {i \in ls.names : include_hidden \/ ~StartsWith(i, ".")}
        folders == {i \in items : IsDir(f, d, Join(DesktopPath, i))}
    IN  IF ~Exists(f, d, DesktopPath)
        THEN [kind |-> "status", text |-> "Desktop path not found!",
              total |-> 0, folders |-> {}, files |-> {}]
        ELSE IF ~ls.ok THEN ReportError(ls.error)
        ELSE [kind |-> "status", text |-> "Desktop Status:",
              total |-> Cardinality(items), folders |-> folders,
              files |-> items \ folders]

\* lines 142-144: the names organize lists; the listing raises when
\* os.listdir does
ListFiles(f, d) ==
    LET ls == ListDir(f, d, DesktopPath)
    IN  [ok |-> ls.ok,
         names |-> {n \in ls.names :
                      ~StartsWith(n, ".") /\ IsFile(f, d, Join(DesktopPath, n))},
         error |-> ls.error]

\* the orders os.listdir may give a set of names in
Orders(S) ==
    {o \in [1..Cardinality(S) -> S] : \A n \in S : \E i \in DOMAIN o : o[i] = n}

----------------------------------------------------------------------------
(* The replies of the chat completion.                                     *)

\* category names a reply may use: a plain name, the desktop itself, and a
\* path that leaves the desktop
LLMCategories == {"Documents", ".", "../Out"}

RECURSIVE Group(_, _)
\* the JSON object that assigns, in order, file a[i].file to a[i].category
Group(a, dict) ==
    IF a = <<>> THEN dict
    ELSE Group(Tail(a), SetDefaultAppend(dict, Head(a).category, Head(a).file))

Assignments(names) ==
    UNION {[1..n -> [category : LLMCategories, file : names]] :
             n \in 0..MaxPlanFiles}

\* the objects json.loads may return for a listing: any grouping of up to
\* MaxPlanFiles of the listed names, and a category with no file
LLMPlans(names) ==
    {Group(a, <<>>) : a \in Assignments(names)}
    \cup {<<[category |-> c, files |-> <<>>]>> : c \in LLMCategories}

Replies(names) ==
    {[ok |-> FALSE, plan |-> <<>>]}
    \cup {[ok |-> TRUE, plan |-> p] : p \in LLMPlans(names)}

----------------------------------------------------------------------------
(* The initial states.                                                     *)

\* the desktop of every initial state: two files and a hidden file
DesktopFiles ==
    (Join(DesktopPath, "a.txt") :> 1) @@ (Join(DesktopPath, "Other") :> 2)
    @@ (Join(DesktopPath, ".env") :> 3)

\* what an earlier run at second 0 left in Documents
EarlierFiles ==
    (Join(Join(DesktopPath, "Documents"), "a.txt") :> 4)
    @@ (Join(Join(DesktopPath, "Documents"), "a_" \o Timestamp(0) \o ".txt") :> 5)

BaseDirs == {<<>>, <<"home">>, Home, DesktopPath}

\* a home with no Desktop directory
NoDesktopDirs == BaseDirs \ {DesktopPath}

InitFs ==
    \/ files = DesktopFiles /\ dirs = BaseDirs
    \/ files = [q \in {} |-> 0] /\ dirs = NoDesktopDirs
    \/ /\ files = DesktopFiles @@ EarlierFiles
       /\ dirs = BaseDirs \cup {Join(DesktopPath, "Documents")}

InitRest ==
    /\ cpc = "start"
    /\ out = <<>>
    /\ answers = <<>>
    /\ pc = "idle"
    /\ calls = 0
    /\ ret = NoRet
    /\ listed = {}
    /\ categories = <<>>
    /\ moved_files = <<>>
    /\ skipped_files = <<>>
    /\ before = NoRet
    /\ effects = {}
    /\ collided = FALSE
    /\ gone = {}
    /\ afterClean = FALSE
    /\ deletes = 0
    /\ deletedContents = {}

Init == InitFs /\ InitRest /\ mode = "boot"

----------------------------------------------------------------------------
(* organize.                                                               *)

\* the names moved_files holds
MovedNames(moved) == UNION {Range(moved[i].files) : i \in 1..Len(moved)}

\* line 181
NewName(file, t) == SplitExt(file)[1] \o "_" \o Timestamp(t) \o SplitExt(file)[2]

\* lines 167, 173 and 177: an entry of the plan with its paths
Locate(e) ==
    [category |-> e.category, file |-> e.file,
     src_path |-> Join(DesktopPath, e.file),
     folder_path |-> Join(DesktopPath, e.category),
     dest_path |-> Join(Join(DesktopPath, e.category), e.file)]

\* the entries of a plan, in the order of the loops of lines 165-166
Located(plan) == [i \in 1..Len(Entries(plan)) |-> Locate(Entries(plan)[i])]

\* lines 177-182: dest_path for entry e in a filesystem (f, d) at second t
DestPath(f, d, e, t) ==
    IF Exists(f, d, e.dest_path)
    THEN Join(e.folder_path, NewName(e.file, t))
    ELSE e.dest_path

\* the content at path p, 0 when no regular file is there
ContentAt(f, p) == IF p \in DOMAIN f THEN f[p] ELSE 0

\* The state of a run of organize: the filesystem, the locals of organize
\* (continued: the turn has taken the continue of line 170), what it returns
\* (ret, NoRet while it runs), and the history of the run.
RunState(f, d, n) ==
    [files |-> f, dirs |-> d, moved |-> <<>>, skipped |-> <<>>,
     dest_path |-> <<>>, continued |-> FALSE,
     ret |-> NoRet, effects |-> {}, collided |-> FALSE, gone |-> {},
     deletes |-> n, deleted |-> {}]

\* somebody else deletes file name of the desktop during the run
Deleted(st, name) ==
    LET p == Append(DesktopPath, name)
    IN  [st EXCEPT !.files = Unlink(@, p),
                   !.gone = @ \cup {name},
                   !.deletes = @ + 1,
                   !.deleted = @ \cup {ContentAt(st.files, p)}]

\* the files of the desktop somebody else may delete: those organize lists
Deletable(f) ==
    {Basename(q) : q \in {r \in DOMAIN f : Parent(r) = DesktopPath
                                           /\ Char(Basename(r), 1) # "."}}

\* the run is in the body of the turn: it has not returned, and has not
\* taken the continue of line 170
InTurn(st) == st.ret = NoRet /\ ~st.continued

\* what the environment may have done while the run was between two lines:
\* nothing, or the deletion of a file of the desktop
Waited(st) ==
    IF st.ret # NoRet THEN {st}
    ELSE {st} \cup {Deleted(st, n) :
                      n \in IF st.deletes < MaxDeletes
                            THEN Deletable(st.files) ELSE {}}

\* what the environment may have done since the last move when line 168
\* looks at the next entry
EnvBefore(st) ==
    {IF s.ret # NoRet THEN s ELSE [s EXCEPT !.continued = FALSE] :
       s \in Waited(st)}

\* what the environment may do to the entry's file between two lines of
\* its turn that read the filesystem: 168 and 174, 174 and 178, 178 and 185
\* (a deletion of another file there is read as one before line 168 is, or
\* not at all)
EnvWindow(st, file) ==
    {st} \cup IF /\ InTurn(st)
                 /\ st.deletes < MaxDeletes
                 /\ file \in Deletable(st.files)
              THEN {Deleted(st, file)} ELSE {}

\* lines 167-170: an entry that is not there is skipped as not found
NotFound(st, e) ==
    IF InTurn(st) /\ ~Exists(st.files, st.dirs, e.src_path)
    THEN [st EXCEPT !.skipped = Append(@, e.file \o " (not found)"),
                    !.continued = TRUE]
    ELSE st

\* lines 172-174: the category folder; an error of os.makedirs ends the run
\* at line 204
Folder(st, e) ==
    LET md == MakeDirs(st.files, st.dirs, e.folder_path)
    IN  IF ~InTurn(st) THEN st
        ELSE [st EXCEPT
                !.dirs = md.dirs,
                !.effects = @ \cup {[kind |-> "mkdir", path |-> q] : q \in md.made},
                !.ret = IF md.ok THEN @ ELSE ReportError(md.error)]

\* lines 176-182: dest_path, for every reading of the clock
Dest(st, e) ==
    IF ~InTurn(st) THEN {st}
    ELSE {[st EXCEPT
             !.dest_path = DestPath(st.files, st.dirs, e, now),
             !.collided = (@ \/ Exists(st.files, st.dirs, e.dest_path))] :
            now \in Seconds}

\* lines 184-188: the move of entry e to dest_path, moved_files and
\* skipped_files
Move(st, e) ==
    LET src == Lookup(st.files, st.dirs, e.src_path).at
        first == Lookup(st.files, st.dirs, e.dest_path).at
        mv == ShutilMove(st.files, st.dirs, e.src_path, st.dest_path)
    IN  IF ~InTurn(st) THEN st
        ELSE IF mv.ok
        THEN [st EXCEPT
                !.files = mv.files,
                !.dirs = mv.dirs,
                !.dest_path = <<>>,
                !.moved = SetDefaultAppend(@, e.category, e.file),
                !.effects = @ \cup
                    {[kind |-> "move", file |-> e.file,
                      folder |-> Lookup(st.files, st.dirs, e.folder_path).at,
                      src |-> src, dst |-> mv.to,
                      taken |-> (st.dest_path # e.dest_path),
                      content |-> ContentAt(st.files, src),
                      held |-> ContentAt(st.files, first),
                      holds |-> ContentAt(mv.files, first),
                      landed |-> ContentAt(mv.files, mv.to),
                      replaced |-> mv.replaced]}]
        ELSE [st EXCEPT
                !.dest_path = <<>>,
                !.skipped = Append(@, e.file \o " (" \o mv.error \o ")")]

\* the states of S, each with what the environment may do to the entry's
\* file before the next line of the turn reads the filesystem
Then(S, file) == UNION {EnvWindow(s, file) : s \in S}

\* lines 167-188: the turn of the loop for entry e, from the states S the
\* run may be in before it: the states it may be in after it
Turn(S, e) ==
    {Move(s5, e) :
       s5 \in Then(UNION {Dest(s4, e) :
                 s4 \in Then({Folder(s3, e) :
                          s3 \in Then({NotFound(s2, e) :
                                   s2 \in UNION {EnvBefore(s1) : s1 \in S}},
                                      e.file)},
                             e.file)},
               e.file)}

\* lines 190-202: the summary, of a run that has not ended at line 204
Finish(st) ==
    [st EXCEPT !.continued = FALSE,
               !.ret = IF @ = NoRet THEN Summary(st.moved, st.skipped) ELSE @]

RECURSIVE Loop(_, _, _)
\* lines 165-202: the loop from entries[k] on, from the states S the run may
\* be in there, and the summary after it (the environment may act before
\* the run returns): the states the run may end in
Loop(entries, k, S) ==
    IF k > Len(entries)
    THEN {Finish(s) : s \in UNION {Waited(st) : st \in S}}
    ELSE Loop(entries, k + 1, Turn(S, entries[k]))

\* an organize that looks at dry_run only after the loop
OrganizeThenPreview(f, d, n, dry_run, order, reply) ==
    LET plan == AnalyzeFiles(order, reply)
        st == RunState(f, d, n)
    IN  IF ~ListFiles(f, d).ok
        THEN {[st EXCEPT !.ret = ReportError(ListFiles(f, d).error)]}
        ELSE IF order = <<>> THEN {[st EXCEPT !.ret = NoFiles]}
        ELSE IF dry_run
        THEN {[s EXCEPT !.ret = [kind |-> "preview",
                                 lines |-> PreviewLines(plan)]] :
                s \in Loop(Located(plan), 1, Waited(st))}
        ELSE Loop(Located(plan), 1, Waited(st))

\* lines 140-204: organize(dry_run) in filesystem (f, d), with order the
\* listing of line 142 and reply what the chat completion gives: the set of
\* the states the call may end in.  The call waits for the chat completion
\* (line 102) after the listing, and the environment may act meanwhile: a
\* dry run, too, may return in another filesystem than it was called in.
Organize(f, d, n, dry_run, order, reply) ==
    LET plan == AnalyzeFiles(order, reply)
        st == RunState(f, d, n)
    IN  IF ~ListFiles(f, d).ok
        THEN {[st EXCEPT !.ret = ReportError(ListFiles(f, d).error)]}
        ELSE IF order = <<>> THEN {[st EXCEPT !.ret = NoFiles]}
        ELSE IF dry_run
        THEN {[s EXCEPT !.ret = [kind |-> "preview",
                                 lines |-> PreviewLines(plan)]] :
                s \in Waited(st)}
        ELSE Loop(Located(plan), 1, Waited(st))

\* the orders of the listing to tell apart: the order reaches the result
\* only through the fallback
ListingOrders(names, reply) ==
    IF reply.ok THEN {CHOOSE o \in Orders(names) : TRUE} ELSE Orders(names)

\* a call of organize, by the host or by main(): one step from the call to
\* the return, which holds what the environment did during the call (gone,
\* and the files of the end state)
OrganizeCall(dry_run) ==
    /\ pc = "idle"
    /\ \E reply \in Replies(ListFiles(files, dirs).names) :
       \E order \in ListingOrders(ListFiles(files, dirs).names, reply) :
       \E st \in Organize(files, dirs, deletes, dry_run, order, reply) :
          /\ files' = st.files
          /\ dirs' = st.dirs
          /\ ret' = st.ret
          /\ listed' = Range(order)
          /\ categories' = AnalyzeFiles(order, reply)
          /\ moved_files' = st.moved
          /\ skipped_files' = st.skipped
          /\ effects' = st.effects
          /\ collided' = st.collided
          /\ gone' = st.gone
          /\ deletes' = st.deletes
          /\ deletedContents' = deletedContents \cup st.deleted
    /\ before' = [files |-> files, dirs |-> dirs]
    /\ pc' = "returned"
    /\ UNCHANGED afterClean

\* a call of show_status, by the host or by main()
ShowStatusCall(include_hidden) ==
    /\ pc = "idle"
    /\ ret' = ShowStatus(files, dirs, include_hidden)
    /\ before' = [files |-> files, dirs |-> dirs]
    /\ pc' = "returned"
    /\ UNCHANGED <<files, dirs, listed, categories, moved_files, skipped_files,
                   effects, collided, gone, afterClean, deletes,
                   deletedContents>>

\* the call was a run that moved every file it listed, skipped none and met
\* no name that was taken
MovedEverything ==
    /\ ret.kind \in {"summary", "error"}
    /\ listed # {}
    /\ skipped_files = <<>>
    /\ ~collided
    /\ listed \subseteq MovedNames(moved_files)

\* the caller has the returned value; the locals of the call are gone
Taken ==
    /\ pc = "returned"
    /\ pc' = "idle"
    /\ ret' = NoRet
    /\ listed' = {}
    /\ categories' = <<>>
    /\ moved_files' = <<>>
    /\ skipped_files' = <<>>
    /\ before' = NoRet
    /\ effects' = {}
    /\ collided' = FALSE
    /\ gone' = {}
    /\ afterClean' = IF ret.kind \in {"summary", "error"}
                     THEN MovedEverything ELSE afterClean
    /\ UNCHANGED <<files, dirs, deletes, deletedContents>>

----------------------------------------------------------------------------
(* The callers: the Truffle host, or main().                               *)

\* lines 239-242: the app launches
LaunchApp ==
    /\ mode = "boot"
    /\ mode' = "host"
    /\ UNCHANGED <<files, dirs, cpc, out, answers, pc, calls, ret, listed,
                   categories, moved_files, skipped_files, before, effects,
                   collided, gone, afterClean, deletes, deletedContents>>

\* lines 243-247: the launch raises, and main() runs
LaunchFails ==
    /\ mode = "boot"
    /\ mode' = "console"
    /\ UNCHANGED <<files, dirs, cpc, out, answers, pc, calls, ret, listed,
                   categories, moved_files, skipped_files, before, effects,
                   collided, gone, afterClean, deletes, deletedContents>>

\* the host calls the tool show_status
HostShowStatus ==
    /\ mode = "host" /\ calls < MaxCalls
    /\ \E include_hidden \in BOOLEAN : ShowStatusCall(include_hidden)
    /\ calls' = calls + 1
    /\ UNCHANGED <<mode, cpc, out, answers>>

\* the host calls the tool organize
HostOrganize ==
    /\ mode = "host" /\ calls < MaxCalls
    /\ \E dry_run \in BOOLEAN : OrganizeCall(dry_run)
    /\ calls' = calls + 1
    /\ UNCHANGED <<mode, cpc, out, answers>>

\* the host has the result
HostTakes ==
    /\ mode = "host"
    /\ Taken
    /\ UNCHANGED <<mode, cpc, out, answers, calls>>

\* what a user may type at a prompt
Answers == {"y", "Y", "n", "yes", ""}

\* a test that takes everything but "n" for a yes
AcceptsUnlessNo(response) == Lower(response) # "n"

\* lines 218 and 226
Accepts(response) == Lower(response) = "y"

\* lines 209-214: main() calls show_status
MainStatus ==
    /\ mode = "console" /\ cpc = "start"
    /\ ShowStatusCall(FALSE)
    /\ cpc' = "status"
    /\ UNCHANGED <<mode, out, answers, calls>>

\* lines 212-214, 220-222, 227-229: main() prints what the call returned
MainPrints ==
    /\ mode = "console" /\ cpc \in {"status", "preview", "organize"}
    /\ Taken
    /\ out' = Append(out, cpc)
    /\ cpc' = CASE cpc = "status" -> "ask1"
                [] cpc = "preview" -> "ask2"
                [] cpc = "organize" -> "end"
    /\ UNCHANGED <<mode, answers, calls>>

\* lines 217-233: main() reads an answer; it goes on to the next call, or
\* prints the cancellation
MainAnswer ==
    /\ mode = "console" /\ cpc \in {"ask1", "ask2"}
    /\ \E response \in Answers :
          /\ answers' = Append(answers, response)
          /\ IF Accepts(response)
             THEN /\ OrganizeCall(cpc = "ask1")
                  /\ cpc' = IF cpc = "ask1" THEN "preview" ELSE "organize"
                  /\ out' = out
             ELSE /\ out' = Append(out, "cancelled")
                  /\ cpc' = "end"
                  /\ UNCHANGED <<files, dirs, pc, ret, listed, categories,
                                 moved_files, skipped_files, before, effects,
                                 collided, gone, afterClean, deletes,
                                 deletedContents>>
    /\ UNCHANGED <<mode, calls>>

\* lines 234-236: input() raises (standard input is closed)
MainInputFails ==
    /\ mode = "console" /\ cpc \in {"ask1", "ask2"}
    /\ out' = Append(out, "error")
    /\ cpc' = "end"
    /\ UNCHANGED <<files, dirs, mode, answers, pc, calls, ret, listed,
                   categories, moved_files, skipped_files, before, effects,
                   collided, gone, afterClean, deletes, deletedContents>>

----------------------------------------------------------------------------
(* The environment.                                                        *)

\* somebody else deletes a file of the desktop between two calls
ExternalDelete ==
    /\ mode # "boot" /\ pc = "idle" /\ deletes < MaxDeletes
    /\ \E n \in Deletable(files) :
          /\ files' = Unlink(files, Append(DesktopPath, n))
          /\ deletedContents' =
                deletedContents \cup {ContentAt(files, Append(DesktopPath, n))}
    /\ deletes' = deletes + 1
    /\ UNCHANGED <<dirs, mode, cpc, out, answers, pc, calls, ret, listed,
                   categories, moved_files, skipped_files, before, effects,
                   collided, gone, afterClean>>

\* names a caller may give to analyze_files
AnalyzeNames ==
    {"a.jpg", "b.txt", "notes", "B.TXT", ".bashrc", "x.tar.gz", "c.xyz", "d."}

\* the lists of at most n names
Lists(n) == UNION {[1..k -> AnalyzeNames] : k \in 0..n}

\* what the chat completion may give for a list: an exception, or one
\* category for all of it
AnalyzeReplies(fs) ==
    {[ok |-> FALSE, plan |-> <<>>],
     [ok |-> TRUE, plan |-> <<[category |-> "Documents", files |-> fs]>>]}

\* the host calls the tool analyze_files
HostAnalyze ==
    /\ mode = "host" /\ pc = "idle"
    /\ \E fs \in Lists(MaxAnalyze) :
       \E reply \in AnalyzeReplies(fs) :
          ret' = [kind |-> "analysis", files |-> fs, failed |-> ~reply.ok,
                  plan |-> AnalyzeFiles(fs, reply)]
    /\ before' = [files |-> files, dirs |-> dirs]
    /\ pc' = "returned"
    /\ UNCHANGED <<files, dirs, mode, cpc, out, answers, calls, listed,
                   categories, moved_files, skipped_files, effects, collided,
                   gone, afterClean, deletes, deletedContents>>

----------------------------------------------------------------------------
(* The specifications.                                                     *)

\* the app runs under the Truffle host, which calls show_status and
\* organize
Next ==
    \/ LaunchApp
    \/ HostShowStatus
    \/ HostOrganize
    \/ HostTakes
    \/ ExternalDelete

Spec == Init /\ [][Next]_vars

\* the launch fails and main() runs
NextConsole ==
    \/ LaunchFails
    \/ MainStatus
    \/ MainPrints
    \/ MainAnswer
    \/ MainInputFails
    \/ ExternalDelete

SpecConsole == Init /\ [][NextConsole]_vars

\* the host calls analyze_files
NextAnalyze ==
    \/ LaunchApp
    \/ HostAnalyze
    \/ HostTakes

SpecAnalyze == Init /\ [][NextAnalyze]_vars

----------------------------------------------------------------------------
(* The claims.                                                             *)

Returned(kinds) == pc = "returned" /\ ret.kind \in kinds

\* the names a plan lists
PlanNames(plan) == {Entries(plan)[i].file : i \in 1..Len(Entries(plan))}

RECURSIVE ParseLines(_, _)
\* the plan a reader takes from the lines of a preview: a line "  - f" adds
\* f to the category of the last header line "\nc:"
ParseLines(lines, dict) ==
    IF lines = <<>> THEN dict
    ELSE IF StartsWith(Head(lines), "  - ")
    THEN ParseLines(Tail(lines),
                    [dict EXCEPT ![Len(dict)].files =
                        Append(@, SubSeq(Head(lines), 5, Len(Head(lines))))])
    ELSE ParseLines(Tail(lines),
                    Append(dict,
                           [category |-> SubSeq(Head(lines), 2, Len(Head(lines)) - 1),
                            files |-> <<>>]))

ReadPreview(lines) == ParseLines(Tail(lines), <<>>)

\* the files fs without those of the desktop the environment deleted
\* during the call
Without(fs, names) ==
    [q \in DOMAIN fs \ {Append(DesktopPath, n) : n \in names} |-> fs[q]]

\* C1 as stated: a call organize(dry_run=True) that returns a preview
\* returns in the filesystem it was called in (no directory made, no file
\* moved), and the preview reads back as exactly the plan analyze_files
\* returned.
C1_Original ==
    Returned({"preview"}) =>
        /\ files = before.files
        /\ dirs = before.dirs
        /\ effects = {}
        /\ ReadPreview(ret.lines) = categories

\* C1, amended: a call organize(dry_run=True) that returns a preview has
\* made no directory and moved no file: the filesystem it returns in is the
\* one it was called in but for the files somebody else deleted during the
\* call; and the preview reads back as exactly the plan analyze_files
\* returned: the same categories in the same order, the same files under
\* each.
C1_DryRunPreview ==
    Returned({"preview"}) =>
        /\ effects = {}
        /\ dirs = before.dirs
        /\ files = Without(before.files, gone)
        /\ ReadPreview(ret.lines) = categories

\* a preview of a plan with two categories, of all the files listed, has
\* been returned, and one of these files was deleted during the call
C1_Witness ==
    /\ Returned({"preview"})
    /\ Len(categories) = 2
    /\ PlanNames(categories) = listed
    /\ gone # {}
    /\ files # before.files

\* what the claim says the fallback gives a file: by its lower-cased
\* extension; "No Extension" when it has none
ClaimedCategory(file) ==
    IF SplitExt(file)[2] = "" THEN "No Extension"
    ELSE ExtensionTable(Lower(SplitExt(file)[2]))

\* C2: when the chat completion fails, analyze_files assigns every input
\* file name to exactly one category, the one its lower-cased extension has
\* in the table, "No Extension" for a name with no extension and "Other"
\* for an extension the table does not hold; ["a.jpg", "b.txt", "notes"]
\* gives Images: a.jpg, Documents: b.txt, No Extension: notes.
C2_FallbackByExtension ==
    (Returned({"analysis"}) /\ ret.failed) =>
        /\ \A i \in 1..Len(ret.files) :
              \E k \in 1..Len(ret.plan) :
                 /\ ret.plan[k].category = ClaimedCategory(ret.files[i])
                 /\ ret.files[i] \in Range(ret.plan[k].files)
                 /\ \A m \in 1..Len(ret.plan) :
                       ret.files[i] \in Range(ret.plan[m].files) => m = k
        /\ ret.files = <<"a.jpg", "b.txt", "notes">> =>
              ret.plan = <<[category |-> "Images", files |-> <<"a.jpg">>],
                           [category |-> "Documents", files |-> <<"b.txt">>],
                           [category |-> "No Extension", files |-> <<"notes">>]>>

IsDigit(c) == RFind("0123456789", c, 10) > 0

\* YYYYMMDD_HHMMSS
IsTimestamp(t) ==
    /\ Len(t) = 15
    /\ \A i \in 1..15 : IF i = 9 THEN Char(t, i) = "_" ELSE IsDigit(Char(t, i))

\* name is <base>_<YYYYMMDD_HHMMSS><ext> for file = <base><ext>
IsStamped(file, name) ==
    LET base == SplitExt(file)[1]
        ext == SplitExt(file)[2]
    IN  /\ Len(name) = Len(file) + 16
        /\ SubSeq(name, 1, Len(base)) = base
        /\ Char(name, Len(base) + 1) = "_"
        /\ IsTimestamp(SubSeq(name, Len(base) + 2, Len(base) + 16))
        /\ SubSeq(name, Len(base) + 17, Len(name)) = ext

\* C3: whenever organize has moved a file F into category folder C while
\* C/F existed (line 178), the moved file is in C under the name
\* <base>_<YYYYMMDD_HHMMSS><ext>, and C/F holds what it held.
C3_CollisionRename ==
    \A e \in effects :
        (e.kind = "move" /\ e.taken) =>
            /\ Parent(e.dst) = e.folder
            /\ IsStamped(e.file, Basename(e.dst))
            /\ e.landed = e.content
            /\ e.holds = e.held

\* C4: a run of organize(dry_run=False) that has a plan returns the
\* summary, with every entry of the plan either moved or skipped: no
\* failure while preparing or performing the move of one file ends the run.
C4_FailuresDoNotAbort ==
    (Returned({"summary", "error"}) /\ listed # {}) =>
        /\ ret.kind = "summary"
        /\ Len(Entries(moved_files)) + Len(skipped_files) = Len(Entries(categories))

\* C5: a call that returns the error string has made no directory and
\* moved no file.
C5_ErrorLeavesFilesystem ==
    Returned({"error"}) => (effects = {} /\ dirs = before.dirs)

\* C6: organize makes only directories that are children of the desktop
\* directory, and moves only files that are children of the desktop
\* directory, into those directories.
C6_Confined ==
    \A e \in effects :
        /\ e.kind = "mkdir" => Parent(e.path) = DesktopPath
        /\ e.kind = "move" =>
              /\ Parent(e.src) = DesktopPath
              /\ Len(e.dst) = Len(DesktopPath) + 2
              /\ Parent(Parent(e.dst)) = DesktopPath

C8_DeletedIsNotFound ==
    Returned({"summary", "error"}) =>
        \A n \in gone \cap PlanNames(categories) :
            /\ ret.kind = "summary"
            /\ (n \o " (not found)") \in Range(skipped_files)
            /\ n \notin MovedNames(moved_files)

\* the filesystem is an initial one, but for files somebody else deleted
Untouched ==
    /\ dirs \in {BaseDirs, NoDesktopDirs,
                 BaseDirs \cup {Join(DesktopPath, "Documents")}}
    /\ \A q \in DOMAIN files :
          /\ q \in DOMAIN (DesktopFiles @@ EarlierFiles)
          /\ files[q] = (DesktopFiles @@ EarlierFiles)[q]

IsPrefix(s, t) == Len(s) <= Len(t) /\ SubSeq(t, 1, Len(s)) = s

\* main() has called organize()
Executing == cpc = "organize" \/ "organize" \in Range(out)

\* C9: main() prints the status, then the preview, then the result of
\* organize(), in this order; it calls organize() only after the status and
\* the preview are printed and both answers were "y" or "Y"; after any
\* other answer it prints the cancellation and ends, and main() has then
\* changed nothing in the filesystem.
C9_ConsoleFlow ==
    mode = "console" =>
        /\ \/ IsPrefix(out, <<"status", "preview", "organize">>)
           \/ \E k \in {1, 2} : \E last \in {"cancelled", "error"} :
                 out = Append(SubSeq(<<"status", "preview">>, 1, k), last)
        /\ Executing =>
              /\ IsPrefix(<<"status", "preview">>, out)
              /\ Len(answers) = 2
              /\ \A i \in 1..2 : answers[i] \in {"y", "Y"}
        /\ ~Executing => Untouched
        /\ (answers # <<>> /\ answers[Len(answers)] \notin {"y", "Y"}) =>
              /\ cpc = "end"
              /\ out[Len(out)] = "cancelled"

\* main() has run to the end of organize(), which moved a file
C9_Witness ==
    /\ mode = "console"
    /\ out = <<"status", "preview", "organize">>
    /\ ~Untouched

\* C10: after a run of organize, every regular file there was when the run
\* began is still there with its content, at its path or at one new path,
\* unless somebody else deleted it; no move has landed on a path that held
\* another file.
C10_NoFileDestroyed ==
    Returned({"summary", "error"}) =>
        /\ \A e \in effects : e.kind = "move" => e.replaced = 0
        /\ \A q \in DOMAIN before.files :
              \/ before.files[q] \in deletedContents
              \/ Cardinality({r \in DOMAIN files :
                                 files[r] = before.files[q]}) = 1

====
